---- MODULE Spec2Model ----
(***************************************************************************)
(* Model of the /quiz request handler of quiz.py: parameter validation,    *)
(* description extraction (vision backend), quiz synthesis (text backend), *)
(* option shuffling with index tracking, and artifact persistence.         *)
(*                                                                         *)
(* A Python str is a sequence of one-character strings.  A backend reply   *)
(* is a text plus the JSON value it carries: the character "#" stands for  *)
(* the serialization of that value, every other character is itself.       *)
(* A Python list is a sequence; Python index k is position k + 1.          *)
(* An unhandled exception ends the request with status 500.                *)
(***************************************************************************)
EXTENDS Integers, Sequences, FiniteSets, TLC

VARIABLES
    pc,               \* position of the handler in quiz()
    files,            \* request.files: set of uploaded field names
    form,             \* request.form: [keys, difficulty, category]
    difficulty,       \* local: normalized difficulty
    category,         \* local: category
    desc,             \* local: text returned by the vision backend
    obj,              \* local: object description
    gpt_response,     \* local: reply of the synthesis backend
    quiz_text,        \* local: its text, stripped and unfenced
    quiz,             \* local: parsed draft
    options,          \* local: the draft's options
    correct_answer,   \* local: options[0]
    shuffled_options, \* local: shuffled copy
    i,                \* loop index of random.shuffle
    draws,            \* the random draws made by random.shuffle so far
    correct_index,    \* local: index of the correct answer
    fallback,         \* TRUE iff the except ValueError branch ran
    final_quiz,       \* local: the record built at the end
    status,           \* HTTP status of the response (0: none yet)
    body,             \* "none", "error" or "quiz"
    calls,            \* backend calls made so far, in order
    disk,             \* artifact files written so far
    failedWrites      \* artifact writes that raised

vars == <<pc, files, form, difficulty, category, desc, obj, gpt_response, quiz_text, quiz,
          options, correct_answer, shuffled_options, i, draws, correct_index,
          fallback, final_quiz, status, body, calls, disk, failedWrites>>

----------------------------------------------------------------------------
(* Bounds and program constants *)

MaxOptions == 4

TagLen == 4

DIFFICULTIES ==
    { <<"E","a","s","y">>, <<"M","e","d","i","u","m">>, <<"H","a","r","d">>,
      <<"V","e","r","y"," ","H","a","r","d">> }

CATEGORIES == {"General", "History", "Fun Fact", "Records/Statistics"}

DefaultDifficulty == <<"M","e","d","i","u","m">>

DefaultCategory == "General"

----------------------------------------------------------------------------
(* Python str methods *)

LowerLetters ==
    <<"a","b","d","e","h","i","j","l","m","n","o","p","r","s","u","v","y">>

UpperLetters ==
    <<"A","B","D","E","H","I","J","L","M","N","O","P","R","S","U","V","Y">>

Whitespace == {" ", "\n"}

Range(s) == {s[k] : k \in 1..Len(s)}

Pos(s, c) == CHOOSE k \in 1..Len(s) : s[k] = c

LowerCase == Range(LowerLetters)

UpperCase == Range(UpperLetters)

LowerOf == [c \in UpperCase |-> LowerLetters[Pos(UpperLetters, c)]]

UpperOf == [c \in LowerCase |-> UpperLetters[Pos(LowerLetters, c)]]

IsCased(c) == c \in LowerCase \/ c \in UpperCase

ToLower(c) == IF c \in UpperCase THEN LowerOf[c] ELSE c

ToUpper(c) == IF c \in LowerCase THEN UpperOf[c] ELSE c

Lower(s) == [k \in 1..Len(s) |-> ToLower(s[k])]

\* str.title(): a cased character is upper-cased when the character before
\* it is not cased, lower-cased otherwise.
Title(s) ==
    [k \in 1..Len(s) |->
        IF k > 1 /\ IsCased(s[k-1]) THEN ToLower(s[k]) ELSE ToUpper(s[k])]

RECURSIVE LStripChars(_, _)
LStripChars(s, cs) ==
    IF s # <<>> /\ Head(s) \in cs THEN LStripChars(Tail(s), cs) ELSE s

RECURSIVE RStripChars(_, _)
RStripChars(s, cs) ==
    IF s # <<>> /\ s[Len(s)] \in cs
    THEN RStripChars(SubSeq(s, 1, Len(s) - 1), cs)
    ELSE s

StripChars(s, cs) == RStripChars(LStripChars(s, cs), cs)

Strip(s) == StripChars(s, Whitespace)

StartsWith(s, p) == Len(s) >= Len(p) /\ SubSeq(s, 1, Len(p)) = p

\* s[n:]
SliceFrom(s, n) == SubSeq(s, n + 1, Len(s))

\* The backtick character is written "~" here.
Backtick == "~"

Fence == <<Backtick, Backtick, Backtick>>

JsonTag == <<"j","s","o","n">>

\* json.loads: succeeds exactly on one JSON value with optional whitespace
\* around it.
JsonParses(text) == LStripChars(RStripChars(text, Whitespace), Whitespace) = <<"#">>

\* dict.get(key, default)
Get(d, key, default) == IF key \in d.keys THEN d[key] ELSE default

----------------------------------------------------------------------------
(* Requests and backend replies *)

\* request.form as a dict; a key outside keys is absent from the form
Form(ks, d, c) == [keys |-> ks, difficulty |-> d, category |-> c]

\* Forms whose parameters are accepted: padded lower case, mixed case with
\* a default category, a default difficulty.
GoodForms ==
    { Form({"difficulty", "category"}, <<" ","e","a","s","y"," ">>, "History"),
      Form({"difficulty"}, <<"V","E","R","Y"," ","h","a","r","d">>, ""),
      Form({"category"}, <<>>, "Records/Statistics") }

\* Forms with an unrecognized difficulty, an unrecognized category, or both.
BadForms ==
    { Form({"difficulty", "category"}, d, "History") :
        d \in { <<"i","m","p","o","s","s","i","b","l","e">>,
                <<"v","e","r","y"," "," ","h","a","r","d">>,
                <<"h","a","r","d","y">>,
                <<>> } }
    \cup { Form({"difficulty", "category"}, <<"h","A","R","D">>, c) :
             c \in {"Science", "history", " History", ""} }
    \cup { Form({"category"}, <<>>, "Science"),
           Form({"difficulty", "category"}, <<"b","a","d">>, "Science") }

Forms == GoodForms \cup BadForms \cup {Form({}, <<>>, "")}

\* Ways a backend wraps the JSON text "#" it was asked for: bare, fenced
\* with a language tag, fenced with an upper-case tag, fenced without a tag.
Wrappings ==
    { <<"#">>,
      Fence \o JsonTag \o <<"\n", "#", "\n">> \o Fence,
      Fence \o <<"J","S","O","N","#">> \o Fence,
      Fence \o <<"\n", "#", "\n">> \o Fence }

\* Other texts a backend may reply with ("x" is a character of free text):
\* free text, fenced free text, a tag without a fence, JSON followed by
\* commentary.
OtherTexts ==
    { <<"x", " ", "x">>,
      Fence \o JsonTag \o <<"\n", "x", "\n">> \o Fence,
      JsonTag \o <<"#">>,
      <<"#", "x">> }

DescriptionKeys ==
    {"description", "brand", "model", "year", "color", "condition", "style",
     "category_general", "material", "context", "size", "notable_features"}

\* The JSON object the vision backend is asked for.
DescriptionObject ==
    [pytype |-> "dict", keys |-> DescriptionKeys, description |-> <<"x">>]

\* JSON values of another type.
OtherValues ==
    { [pytype |-> "str",  keys |-> {}, description |-> <<>>] }

NoObj == [pytype |-> "unset", keys |-> {}, description |-> <<>>]

VisionReplies ==
    { [text |-> t, value |-> DescriptionObject] : t \in Wrappings \cup OtherTexts }
    \cup { [text |-> <<"#">>, value |-> v] : v \in OtherValues }

NoReply == [text |-> <<>>, value |-> NoObj]

\* Option texts.  Options are only ever compared for equality, so the
\* k-th new text of a draft is taken to be the k-th of OptionTexts.
OptionTexts == <<"a", "b", "c", "d">>

\* f[1] = 1 and every later entry is at most one more than an earlier one.
FirstUse(f) ==
    \A k \in DOMAIN f :
        \/ f[k] = 1
        \/ \E m \in 1..(k-1) : f[m] >= f[k] - 1

OptionLists ==
    UNION { { [k \in 1..n |-> OptionTexts[f[k]]] :
                f \in {g \in [1..n -> 1..Len(OptionTexts)] : FirstUse(g)} } :
            n \in 0..MaxOptions }

DraftKeys ==
    {"question", "options", "hint", "explanation", "title", "difficulty", "category"}

\* A JSON object the synthesis backend's text may carry, with the given keys.
Draft(ks, opts) ==
    [pytype |-> "dict", keys |-> ks, question |-> "Q", options |-> opts,
     hint |-> "H", explanation |-> "E", title |-> "T",
     difficulty |-> <<"H","a","r","d">>, category |-> "Fun Fact"]

NoQuiz ==
    [pytype |-> "unset", keys |-> {}, question |-> "", options |-> <<>>,
     hint |-> "", explanation |-> "", title |-> "",
     difficulty |-> <<>>, category |-> ""]

\* JSON values the synthesis backend's text may carry: objects with all
\* keys, with the options only (short lists), without the options, and a
\* JSON array.
ShortLists == {o \in OptionLists : Len(o) <= 2}

SynthValues ==
    { Draft(DraftKeys, o) : o \in OptionLists }
    \cup { Draft({"options"}, o) : o \in ShortLists }
    \cup { Draft(DraftKeys \ {"options"}, <<>>) }
    \cup { [NoQuiz EXCEPT !.pytype = "list"] }

\* The JSON text fenced, tagged and padded
FencedReply == <<" ">> \o Fence \o JsonTag \o <<"\n", "#", "\n">> \o Fence \o <<"\n">>

\* Replies of the synthesis backend: every value as bare JSON, the short
\* drafts fenced as well, and texts that are not the JSON asked for.
SynthReplies ==
    { [text |-> <<"#">>, value |-> v] : v \in SynthValues }
    \cup { [text |-> FencedReply, value |-> Draft(DraftKeys, o)] : o \in ShortLists }
    \cup { [text |-> t, value |-> Draft(DraftKeys, <<"a", "b", "c", "d">>)] : t \in OtherTexts }

NoSynthReply == [text |-> <<>>, value |-> NoQuiz]

NoFinal ==
    [question |-> "", options |-> <<>>, correct_index |-> -1, hint |-> "",
     explanation |-> "", title |-> "", difficulty |-> <<>>, category |-> ""]

----------------------------------------------------------------------------
(* The handler *)

Init ==
    /\ pc = "start"
    /\ files \in {{}, {"image"}}
    /\ form \in Forms
    /\ difficulty = <<>>
    /\ category = ""
    /\ desc = NoReply
    /\ obj = NoObj
    /\ gpt_response = NoSynthReply
    /\ quiz_text = <<>>
    /\ quiz = NoQuiz
    /\ options = <<>>
    /\ correct_answer = ""
    /\ shuffled_options = <<>>
    /\ i = 0
    /\ draws = <<>>
    /\ correct_index = -1
    /\ fallback = FALSE
    /\ final_quiz = NoFinal
    /\ status = 0
    /\ body = "none"
    /\ calls = <<>>
    /\ disk = {}
    /\ failedWrites = {}

\* return jsonify({"error": ...}), code
Respond(code) ==
    /\ status' = code
    /\ body' = "error"
    /\ pc' = "done"

\* An exception leaves the handler: the server answers 500.
Raise ==
    Respond(500)

\* lines 28-29
RejectNoImage ==
    /\ pc = "start"
    /\ "image" \notin files
    /\ Respond(400)
    /\ UNCHANGED <<files, form, difficulty, category, desc, obj, gpt_response, quiz_text, quiz,
                   options, correct_answer, shuffled_options, i, draws,
                   correct_index, fallback, final_quiz, calls, disk, failedWrites>>

\* lines 31-33
ReadParams ==
    /\ pc = "start"
    /\ "image" \in files
    /\ difficulty' = Title(Strip(Get(form, "difficulty", DefaultDifficulty)))
    /\ category' = Get(form, "category", DefaultCategory)
    /\ pc' = "validate"
    /\ UNCHANGED <<files, form, desc, obj, gpt_response, quiz_text, quiz, options,
                   correct_answer, shuffled_options, i, draws, correct_index,
                   fallback, final_quiz, status, body, calls, disk, failedWrites>>

\* Faulty variant of ParamsValid: one valid parameter is enough.
ParamsValidEither(d, c) == d \in DIFFICULTIES \/ c \in CATEGORIES

\* line 35
ParamsValid(d, c) == d \in DIFFICULTIES /\ c \in CATEGORIES

\* lines 35-36
RejectInvalid ==
    /\ pc = "validate"
    /\ ~ParamsValid(difficulty, category)
    /\ Respond(400)
    /\ UNCHANGED <<files, form, difficulty, category, desc, obj, gpt_response, quiz_text, quiz,
                   options, correct_answer, shuffled_options, i, draws,
                   correct_index, fallback, final_quiz, calls, disk, failedWrites>>

\* lines 39-82: the vision backend is called and replies
Describe ==
    /\ pc = "validate"
    /\ ParamsValid(difficulty, category)
    /\ calls' = Append(calls, "vision")
    /\ \E r \in VisionReplies : desc' = r
    /\ pc' = "parse_desc"
    /\ UNCHANGED <<files, form, difficulty, category, obj, gpt_response, quiz_text, quiz,
                   options, correct_answer, shuffled_options, i, draws,
                   correct_index, fallback, final_quiz, status, body, disk,
                   failedWrites>>

\* lines 39-81: the vision backend is called and raises
DescribeRaises ==
    /\ pc = "validate"
    /\ ParamsValid(difficulty, category)
    /\ calls' = Append(calls, "vision")
    /\ Raise
    /\ UNCHANGED <<files, form, difficulty, category, desc, obj, gpt_response, quiz_text, quiz,
                   options, correct_answer, shuffled_options, i, draws,
                   correct_index, fallback, final_quiz, disk, failedWrites>>

\* lines 86-91: strip, then remove a fence and a leading language tag
CleanDesc(text) ==
    LET cleaned == Strip(text) IN
    IF StartsWith(cleaned, Fence)
    THEN LET unfenced == StripChars(cleaned, {Backtick}) IN
         IF StartsWith(Lower(unfenced), JsonTag)
         THEN Strip(SliceFrom(unfenced, TagLen))
         ELSE unfenced
    ELSE cleaned

\* lines 84-94: the parsed value, or the fallback mapping on any failure
ParsedDescription(reply) ==
    IF JsonParses(CleanDesc(reply.text))
    THEN reply.value
    ELSE [pytype |-> "dict", keys |-> {"description"}, description |-> reply.text]

\* lines 84-94
ParseDescription ==
    /\ pc = "parse_desc"
    /\ obj' = ParsedDescription(desc)
    /\ pc' = "save_desc"
    /\ UNCHANGED <<files, form, difficulty, category, desc, gpt_response, quiz_text, quiz,
                   options, correct_answer, shuffled_options, i, draws,
                   correct_index, fallback, final_quiz, status, body, calls,
                   disk, failedWrites>>

\* with open(name, "w") as f: f.write(...), succeeding
WriteFile(name) ==
    /\ disk' = disk \cup {name}
    /\ UNCHANGED failedWrites

\* with open(name, "w") as f: f.write(...), raising
WriteFileRaises(name) ==
    /\ failedWrites' = failedWrites \cup {name}
    /\ UNCHANGED disk

\* lines 96-98: the write succeeds
SaveDescription ==
    /\ pc = "save_desc"
    /\ WriteFile("description.txt")
    /\ pc' = "synthesize"
    /\ UNCHANGED <<files, form, difficulty, category, desc, obj, gpt_response, quiz_text, quiz,
                   options, correct_answer, shuffled_options, i, draws,
                   correct_index, fallback, final_quiz, status, body, calls>>

\* lines 96-98: open or write raises OSError
SaveDescriptionRaises ==
    /\ pc = "save_desc"
    /\ WriteFileRaises("description.txt")
    /\ Raise
    /\ UNCHANGED <<files, form, difficulty, category, desc, obj, gpt_response, quiz_text, quiz,
                   options, correct_answer, shuffled_options, i, draws,
                   correct_index, fallback, final_quiz, calls>>

\* lines 103-270: the synthesis backend is called and replies
Synthesize ==
    /\ pc = "synthesize"
    /\ calls' = Append(calls, "synthesis")
    /\ \E r \in SynthReplies :
        /\ gpt_response' = r
        /\ quiz_text' = Strip(r.text)
    /\ pc' = "parse_quiz"
    /\ UNCHANGED <<files, form, difficulty, category, desc, obj, quiz, options,
                   correct_answer, shuffled_options, i, draws, correct_index,
                   fallback, final_quiz, status, body, disk, failedWrites>>

\* lines 261-268: the synthesis backend is called and raises
SynthesizeRaises ==
    /\ pc = "synthesize"
    /\ calls' = Append(calls, "synthesis")
    /\ Raise
    /\ UNCHANGED <<files, form, difficulty, category, desc, obj, gpt_response, quiz_text, quiz,
                   options, correct_answer, shuffled_options, i, draws,
                   correct_index, fallback, final_quiz, disk, failedWrites>>

\* lines 273-277: remove a fence and a leading language tag
CleanQuizText(text) ==
    IF StartsWith(text, Fence)
    THEN LET unfenced == StripChars(text, {Backtick}) IN
         IF StartsWith(Lower(unfenced), JsonTag)
         THEN Strip(SliceFrom(unfenced, TagLen))
         ELSE unfenced
    ELSE text

\* lines 273-279, json.loads succeeds
ParseQuiz ==
    /\ pc = "parse_quiz"
    /\ JsonParses(CleanQuizText(quiz_text))
    /\ quiz_text' = CleanQuizText(quiz_text)
    /\ quiz' = gpt_response.value
    /\ pc' = "save_quiz_txt"
    /\ UNCHANGED <<files, form, difficulty, category, desc, obj, gpt_response, options,
                   correct_answer, shuffled_options, i, draws, correct_index,
                   fallback, final_quiz, status, body, calls, disk, failedWrites>>

\* Faulty variant of ParseQuizRaises: an unparsable reply is replaced by a default
\* draft, as the description stage does, and the handler goes on.
ParseQuizFallsBack ==
    /\ pc = "parse_quiz"
    /\ ~JsonParses(CleanQuizText(quiz_text))
    /\ quiz_text' = CleanQuizText(quiz_text)
    /\ quiz' = Draft(DraftKeys, <<"a", "b">>)
    /\ pc' = "save_quiz_txt"
    /\ UNCHANGED <<files, form, difficulty, category, desc, obj, gpt_response, options,
                   correct_answer, shuffled_options, i, draws, correct_index,
                   fallback, final_quiz, status, body, calls, disk, failedWrites>>

\* lines 273-279, json.loads raises
ParseQuizRaises ==
    /\ pc = "parse_quiz"
    /\ ~JsonParses(CleanQuizText(quiz_text))
    /\ quiz_text' = CleanQuizText(quiz_text)
    /\ Raise
    /\ UNCHANGED <<files, form, difficulty, category, desc, obj, gpt_response, quiz, options,
                   correct_answer, shuffled_options, i, draws, correct_index,
                   fallback, final_quiz, calls, disk, failedWrites>>

\* lines 281-283: the write succeeds
SaveQuizText ==
    /\ pc = "save_quiz_txt"
    /\ WriteFile("quiz.txt")
    /\ pc' = "options"
    /\ UNCHANGED <<files, form, difficulty, category, desc, obj, gpt_response, quiz_text, quiz,
                   options, correct_answer, shuffled_options, i, draws,
                   correct_index, fallback, final_quiz, status, body, calls>>

\* lines 281-283: open or write raises OSError
SaveQuizTextRaises ==
    /\ pc = "save_quiz_txt"
    /\ WriteFileRaises("quiz.txt")
    /\ Raise
    /\ UNCHANGED <<files, form, difficulty, category, desc, obj, gpt_response, quiz_text, quiz,
                   options, correct_answer, shuffled_options, i, draws,
                   correct_index, fallback, final_quiz, calls>>

\* line 286 on a value that is no dict: quiz.get raises AttributeError
GetOptionsRaises ==
    /\ pc = "options"
    /\ quiz.pytype # "dict"
    /\ Raise
    /\ UNCHANGED <<files, form, difficulty, category, desc, obj, gpt_response, quiz_text, quiz,
                   options, correct_answer, shuffled_options, i, draws,
                   correct_index, fallback, final_quiz, calls, disk, failedWrites>>

\* Faulty variant of TooFewOptions: only an empty list is rejected.
TooFewOptionsEmptyOnly(opts) == opts = <<>>

\* line 287
TooFewOptions(opts) == opts = <<>> \/ Len(opts) < 2

\* lines 286-288
RejectFewOptions ==
    /\ pc = "options"
    /\ quiz.pytype = "dict"
    /\ options' = Get(quiz, "options", <<>>)
    /\ TooFewOptions(options')
    /\ Respond(500)
    /\ UNCHANGED <<files, form, difficulty, category, desc, obj, gpt_response, quiz_text, quiz,
                   correct_answer, shuffled_options, i, draws, correct_index,
                   fallback, final_quiz, calls, disk, failedWrites>>

\* line 291
CorrectAnswer(opts) == opts[1]

\* lines 286-294, and the start of random.shuffle's loop at i = len - 1
TakeOptions ==
    /\ pc = "options"
    /\ quiz.pytype = "dict"
    /\ options' = Get(quiz, "options", <<>>)
    /\ ~TooFewOptions(options')
    /\ correct_answer' = CorrectAnswer(options')
    /\ shuffled_options' = options'
    /\ i' = Len(options') - 1
    /\ pc' = IF i' >= 1 THEN "shuffle" ELSE "locate"
    /\ UNCHANGED <<files, form, difficulty, category, desc, obj, gpt_response, quiz_text, quiz,
                   draws, correct_index, fallback, final_quiz, status, body,
                   calls, disk, failedWrites>>

\* Faulty variant of Swap: x[a] = x[b] without the exchange.
SwapOverwrite(x, a, b) == [x EXCEPT ![a + 1] = x[b + 1]]

\* x[a], x[b] = x[b], x[a] on Python indices a, b
Swap(x, a, b) == [x EXCEPT ![a + 1] = x[b + 1], ![b + 1] = x[a + 1]]

\* Faulty variant of DrawsAt: j = randbelow(k), never leaving an element in place.
DrawsBelow(k) == 0..(k - 1)

\* random.shuffle draws j = randbelow(k + 1) at loop index k
DrawsAt(k) == 0..k

\* line 295: random.shuffle(x) with the draws js
RECURSIVE ShuffleFrom(_, _, _)
ShuffleFrom(x, k, js) ==
    IF js = <<>> THEN x ELSE ShuffleFrom(Swap(x, k, Head(js)), k - 1, Tail(js))

Shuffle(x, js) == ShuffleFrom(x, Len(x) - 1, js)

\* The draws random.shuffle can make on a list of n elements
DrawVectors(n) ==
    {js \in [1..(n-1) -> 0..(n-1)] : \A k \in 1..(n-1) : js[k] \in DrawsAt(n - k)}

\* line 295: one iteration of random.shuffle's loop,
\* for i in reversed(range(1, len(x))): j = randbelow(i + 1); swap x[i], x[j]
ShuffleStep ==
    /\ pc = "shuffle"
    /\ i >= 1
    /\ \E j \in DrawsAt(i) :
        /\ shuffled_options' = Swap(shuffled_options, i, j)
        /\ draws' = Append(draws, j)
    /\ i' = i - 1
    /\ pc' = IF i' >= 1 THEN "shuffle" ELSE "locate"
    /\ UNCHANGED <<files, form, difficulty, category, desc, obj, gpt_response, quiz_text, quiz,
                   options, correct_answer, correct_index, fallback, final_quiz,
                   status, body, calls, disk, failedWrites>>

\* Faulty variant of Index: the position counted from 1.
IndexOneBased(x, v) == CHOOSE k \in 1..Len(x) : x[k] = v /\ \A m \in 1..(k-1) : x[m] # v

\* list.index(v): Python index of the first element equal to v
Index(x, v) == (CHOOSE k \in 1..Len(x) : x[k] = v /\ \A m \in 1..(k-1) : x[m] # v) - 1

\* Faulty variant of LocateCorrect: a correct answer that is absent or occurs more
\* than once is forced to the front.
LocateCorrectForcing ==
    /\ pc = "locate"
    /\ IF Cardinality({k \in 1..Len(shuffled_options) :
                          shuffled_options[k] = correct_answer}) = 1
       THEN /\ correct_index' =
                 (CHOOSE k \in 1..Len(shuffled_options) :
                     shuffled_options[k] = correct_answer) - 1
            /\ UNCHANGED <<shuffled_options, fallback>>
       ELSE /\ shuffled_options' = [shuffled_options EXCEPT ![1] = correct_answer]
            /\ correct_index' = 0
            /\ fallback' = TRUE
    /\ pc' = "build"
    /\ UNCHANGED <<files, form, difficulty, category, desc, obj, gpt_response, quiz_text, quiz,
                   options, correct_answer, i, draws, final_quiz, status, body,
                   calls, disk, failedWrites>>

\* lines 298-304
LocateCorrect ==
    /\ pc = "locate"
    /\ IF correct_answer \in Range(shuffled_options)
       THEN /\ correct_index' = Index(shuffled_options, correct_answer)
            /\ UNCHANGED <<shuffled_options, fallback>>
       ELSE /\ shuffled_options' = [shuffled_options EXCEPT ![1] = correct_answer]
            /\ correct_index' = 0
            /\ fallback' = TRUE
    /\ pc' = "build"
    /\ UNCHANGED <<files, form, difficulty, category, desc, obj, gpt_response, quiz_text, quiz,
                   options, correct_answer, i, draws, final_quiz, status, body,
                   calls, disk, failedWrites>>

\* Faulty variant of FinalQuiz: difficulty and category are taken from the model
\* output when it has them.
FinalQuizFromModel ==
    [question |-> Get(quiz, "question", ""),
     options |-> shuffled_options,
     correct_index |-> correct_index,
     hint |-> Get(quiz, "hint", ""),
     explanation |-> Get(quiz, "explanation", ""),
     title |-> Get(quiz, "title", ""),
     difficulty |-> Get(quiz, "difficulty", difficulty),
     category |-> Get(quiz, "category", category)]

\* lines 307-316
FinalQuiz ==
    [question |-> Get(quiz, "question", ""),
     options |-> shuffled_options,
     correct_index |-> correct_index,
     hint |-> Get(quiz, "hint", ""),
     explanation |-> Get(quiz, "explanation", ""),
     title |-> Get(quiz, "title", ""),
     difficulty |-> difficulty,
     category |-> category]

\* lines 306-316
BuildFinal ==
    /\ pc = "build"
    /\ final_quiz' = FinalQuiz
    /\ pc' = "save_quiz_json"
    /\ UNCHANGED <<files, form, difficulty, category, desc, obj, gpt_response, quiz_text, quiz,
                   options, correct_answer, shuffled_options, i, draws,
                   correct_index, fallback, status, body, calls, disk,
                   failedWrites>>

\* lines 318-320: the write succeeds
SaveQuizJson ==
    /\ pc = "save_quiz_json"
    /\ WriteFile("quiz.json")
    /\ pc' = "return"
    /\ UNCHANGED <<files, form, difficulty, category, desc, obj, gpt_response, quiz_text, quiz,
                   options, correct_answer, shuffled_options, i, draws,
                   correct_index, fallback, final_quiz, status, body, calls>>

\* lines 318-320: open or write raises OSError
SaveQuizJsonRaises ==
    /\ pc = "save_quiz_json"
    /\ WriteFileRaises("quiz.json")
    /\ Raise
    /\ UNCHANGED <<files, form, difficulty, category, desc, obj, gpt_response, quiz_text, quiz,
                   options, correct_answer, shuffled_options, i, draws,
                   correct_index, fallback, final_quiz, calls>>

\* line 322
Return ==
    /\ pc = "return"
    /\ status' = 200
    /\ body' = "quiz"
    /\ pc' = "done"
    /\ UNCHANGED <<files, form, difficulty, category, desc, obj, gpt_response, quiz_text, quiz,
                   options, correct_answer, shuffled_options, i, draws,
                   correct_index, fallback, final_quiz, calls, disk, failedWrites>>

Next ==
    \/ RejectNoImage
    \/ ReadParams
    \/ RejectInvalid
    \/ Describe
    \/ DescribeRaises
    \/ ParseDescription
    \/ SaveDescription
    \/ SaveDescriptionRaises
    \/ Synthesize
    \/ SynthesizeRaises
    \/ ParseQuiz
    \/ ParseQuizRaises
    \/ SaveQuizText
    \/ SaveQuizTextRaises
    \/ GetOptionsRaises
    \/ RejectFewOptions
    \/ TakeOptions
    \/ ShuffleStep
    \/ LocateCorrect
    \/ BuildFinal
    \/ SaveQuizJson
    \/ SaveQuizJsonRaises
    \/ Return

Spec == Init /\ [][Next]_vars

----------------------------------------------------------------------------
(* Properties *)

\* The handler returned a quiz record.
Returned == pc = "done" /\ body = "quiz"

\* The draft parsed from the synthesis backend's reply.
DraftOf == gpt_response.value

Count(x, v) == Cardinality({k \in 1..Len(x) : x[k] = v})

IsPermutation(x, y) ==
    /\ Len(x) = Len(y)
    /\ \A v \in Range(x) \cup Range(y) : Count(x, v) = Count(y, v)

Distinct(x) == \A a, b \in 1..Len(x) : x[a] = x[b] => a = b

\* request.form's difficulty after normalization, and its category
NormalizedDifficulty == Title(Strip(Get(form, "difficulty", DefaultDifficulty)))

RequestedCategory == Get(form, "category", DefaultCategory)

\* C1: in every returned quiz record correct_index is a valid position of
\* the returned options, and the option at that position equals the
\* option at position 0 of the draft parsed from the synthesis backend.
C1_CorrectIndexPointsAtDraftFirst ==
    Returned =>
        /\ final_quiz.correct_index \in 0..(Len(final_quiz.options) - 1)
        /\ final_quiz.options[final_quiz.correct_index + 1] = DraftOf.options[1]

C1_Witness ==
    /\ Returned
    /\ Len(DraftOf.options) = 4
    /\ final_quiz.correct_index = 2
    /\ final_quiz.options # DraftOf.options

\* C2: a request without the image field, or whose normalized difficulty
\* or whose category is outside its enumeration, is answered with status
\* 400 and no backend is ever called; a backend is called only after both
\* parameters were found to be members of their enumerations.
C2_ValidationBeforeBackends ==
    /\ ( \/ "image" \notin files
         \/ NormalizedDifficulty \notin DIFFICULTIES
         \/ RequestedCategory \notin CATEGORIES )
       => /\ calls = <<>>
          /\ pc \in {"start", "validate", "done"}
          /\ pc = "done" => status = 400 /\ body = "error"
    /\ calls # <<>> =>
          /\ "image" \in files
          /\ difficulty \in DIFFICULTIES
          /\ category \in CATEGORIES

C2_Witness ==
    /\ pc = "done"
    /\ status = 400
    /\ "image" \in files
    /\ difficulty \in DIFFICULTIES
    /\ category \notin CATEGORIES

\* C3: in every returned quiz record question, hint, explanation and title
\* equal the draft's values, and difficulty and category equal the
\* validated request parameters, not the values of the model output.
C3_PassThrough ==
    Returned =>
        /\ \A k \in {"question", "hint", "explanation", "title"} \cap DraftOf.keys :
              final_quiz[k] = DraftOf[k]
        /\ final_quiz.difficulty = NormalizedDifficulty
        /\ final_quiz.category = RequestedCategory
        /\ Len(final_quiz.options) = Len(DraftOf.options)

C3_Witness ==
    /\ Returned
    /\ {"question", "hint", "explanation", "title", "difficulty", "category"} \subseteq DraftOf.keys
    /\ DraftOf.difficulty # final_quiz.difficulty
    /\ DraftOf.category # final_quiz.category

\* The vision backend's text does not parse as JSON after stripping.
DescUnparsable == ~JsonParses(CleanDesc(desc.text))

\* C4: when the vision backend's text fails to parse as JSON the object
\* description is the mapping {"description": <raw text>} and the pipeline
\* goes on to the synthesis call; for every text the description handed on
\* is a mapping.
C4_ExtractionAlwaysYieldsMapping ==
    obj # NoObj =>
        /\ obj.pytype = "dict"
        /\ DescUnparsable =>
              /\ obj = [pytype |-> "dict", keys |-> {"description"},
                        description |-> desc.text]
              /\ pc = "done" => "synthesis" \in Range(calls)

\* The synthesis backend replied with text that does not parse as JSON.
QuizUnparsable ==
    /\ gpt_response # NoSynthReply
    /\ ~JsonParses(CleanQuizText(Strip(gpt_response.text)))

\* The parsed draft has fewer than 2 options (missing, empty or single).
DraftTooShort ==
    /\ quiz.pytype = "dict"
    /\ Len(Get(quiz, "options", <<>>)) < 2

\* C5: a parsed draft with fewer than 2 options is answered with a server
\* error and never normalized; every returned quiz record has at least 2
\* options.
C5_FewOptionsRejected ==
    /\ DraftTooShort =>
          /\ pc \in {"save_quiz_txt", "options", "done"}
          /\ final_quiz = NoFinal
          /\ pc = "done" => status = 500 /\ body = "error"
    /\ Returned => Len(final_quiz.options) >= 2

C5_Witness ==
    /\ DraftTooShort
    /\ Len(quiz.options) = 1
    /\ "options" \in quiz.keys
    /\ pc = "done"
    /\ status = 500
    /\ failedWrites = {}

\* C6: a synthesis reply that does not parse as JSON ends the request with
\* a server error: no draft, no normalization, no quiz record.
C6_SynthesisParseFailureIsFatal ==
    QuizUnparsable =>
        /\ pc \in {"parse_quiz", "done"}
        /\ quiz = NoQuiz
        /\ shuffled_options = <<>>
        /\ final_quiz = NoFinal
        /\ pc = "done" => status = 500 /\ body = "error"

C6_Witness ==
    /\ QuizUnparsable
    /\ pc = "done"
    /\ status = 500
    /\ failedWrites = {}
    /\ StartsWith(Strip(gpt_response.text), Fence)

\* Both backends replied and the draft is an object with at least 2 options.
BackendsSucceeded ==
    /\ calls = <<"vision", "synthesis">>
    /\ gpt_response # NoSynthReply
    /\ ~QuizUnparsable
    /\ DraftOf.pytype = "dict"
    /\ Len(Get(DraftOf, "options", <<>>)) >= 2

\* C7: whenever both backends succeed and the draft has at least 2
\* options, the handler returns the quiz record, whether or not a write of
\* description.txt, quiz.txt or quiz.json failed.
C7_WriteFailureNeverFailsRequest ==
    (pc = "done" /\ BackendsSucceeded) => (status = 200 /\ body = "quiz")

\* The shuffle of a 4-option draft with distinct options has run.
FourDistinctShuffled ==
    /\ pc = "locate"
    /\ Len(options) = 4
    /\ Distinct(options)

Rearrangements(x) ==
    { [k \in 1..Len(x) |-> x[p[k]]] :
        p \in {q \in [1..Len(x) -> 1..Len(x)] : \A a, b \in 1..Len(x) : q[a] = q[b] => a = b} }

\* C8: for a 4-option draft with distinct options, every permutation is an
\* outcome of the shuffle and there are as many vectors of draws as
\* permutations, so each comes from exactly one vector (the draws being
\* uniform, all permutations are equally likely); each
\* position 0..3 is the correct index for the same number of draw vectors;
\* the permutation applied is the one the draws determine on positions,
\* whatever the options are.
C8_ShuffleUnbiased ==
    FourDistinctShuffled =>
        /\ {Shuffle(options, js) : js \in DrawVectors(4)} = Rearrangements(options)
        /\ Cardinality(DrawVectors(4)) = Cardinality(Rearrangements(options))
        /\ \A p \in 0..3 :
              Cardinality({js \in DrawVectors(4) :
                              Index(Shuffle(options, js), correct_answer) = p}) = 6
        /\ draws \in DrawVectors(4)
        /\ LET perm == Shuffle(<<1, 2, 3, 4>>, draws) IN
           shuffled_options = [k \in 1..4 |-> options[perm[k]]]

C8_Witness ==
    /\ Returned
    /\ Len(options) = 4
    /\ Distinct(options)
    /\ final_quiz.correct_index = 3
    /\ final_quiz.options[1] = options[4]

\* The correct answer's text occurs more than once in the draft's options.
CorrectDuplicated == Len(options) >= 2 /\ Count(options, options[1]) > 1

AfterLocate == pc \in {"build", "save_quiz_json", "return", "done"}

\* C9 as claimed: when the correct answer's text occurs more than once in
\* the draft's options, the fallback runs: correct_index is 0 and the
\* first returned option is the correct answer.
C9_DuplicatesForceIndexZero ==
    (Returned /\ CorrectDuplicated) =>
        /\ final_quiz.correct_index = 0
        /\ final_quiz.options[1] = correct_answer

\* C9 amended: when the correct answer's text occurs more than once in the
\* draft's options, the fallback does not run: the options stay as
\* shuffled, correct_index is the first position holding the correct
\* answer's text, and the request fails only if an artifact write fails.
C9_DuplicatesLocatedAtFirstMatch ==
    CorrectDuplicated =>
        /\ AfterLocate =>
              /\ ~fallback
              /\ shuffled_options = Shuffle(options, draws)
              /\ shuffled_options[correct_index + 1] = correct_answer
              /\ \A k \in 1..correct_index : shuffled_options[k] # correct_answer
        /\ (pc = "done" /\ status # 200) => failedWrites # {}

C9_Witness ==
    /\ Returned
    /\ CorrectDuplicated
    /\ final_quiz.correct_index = 1
    /\ final_quiz.options[3] = correct_answer

\* C10: the returned options are a permutation of the draft's options, and
\* the branch that overwrites shuffled_options[0] never runs.
C10_OptionsArePermutation ==
    /\ ~fallback
    /\ pc \in {"shuffle", "locate"} \cup {"build", "save_quiz_json", "return"} =>
          IsPermutation(shuffled_options, DraftOf.options)
    /\ Returned => IsPermutation(final_quiz.options, DraftOf.options)

C10_Witness ==
    /\ Returned
    /\ Len(final_quiz.options) = 4
    /\ final_quiz.options # DraftOf.options
    /\ Count(final_quiz.options, "b") = 2

====
